---- MODULE Spec2Model ----
(***************************************************************************)
(* A model of the Vienna Game Job System (src/GameJobSystem/GameJobSystem.h)*)
(* : the Job slots of the JobMemory pools, the per-thread JobQueues, the    *)
(* worker loop JobSystem::threadTask, the completion protocol of            *)
(* Job::operator() / Job::onFinished, pool reset and pool playback, and the *)
(* main thread's wait().                                                    *)
(*                                                                          *)
(* 32-bit unsigned counters (m_numUnfinishedChildren, m_numJobs,            *)
(* numJobsLeftToPlay) are kept as the representative in (-2^31, 2^31) of    *)
(* their value modulo 2^32: 0 - 1 is written -1 and stands for 0xFFFFFFFF.  *)
(* The code only tests these counters with "== 1", "== 0" and "> 0"; the    *)
(* unsigned "> 0" is "# 0" on the representative.                           *)
(***************************************************************************)
EXTENDS Integers, Sequences, FiniteSets, TLC

\* ---------------------------------------------------------------- bounds
NumThreads == 2
NumPools == 2
MaxSlots == 3
MaxBodyOps == 1
\* what a run may spend under Spec: allocateJob calls, Job::operator() calls,
\* resetPool calls, playBackPool calls
MaxAllocs == 2
MaxRuns == 3
MaxResets == 1
MaxPlaybacks == 1
\* the same under SpecPlay, which has no resetPool, terminate or wait calls of
\* the main thread and no playBackPool or terminate calls of the functions
MaxAllocsPlay == 4
MaxRunsPlay == 7
\* the same under SpecReuse, in which the main thread submits and resets
MaxAllocsReuse == 4
MaxRunsReuse == 4
\* the same under SpecStop, in which the main thread submits and terminates
MaxAllocsStop == 3
MaxRunsStop == 3
\* the same under SpecChain, in which all Jobs are in pool 0
MaxAllocsChain == 5
MaxRunsChain == 4
\* the same under SpecStart, which begins inside the constructor
MaxAllocsStart == 2
MaxRunsStart == 2

Threads == 0 .. (NumThreads - 1)
PoolIds == 0 .. (NumPools - 1)
NULL == 0
Jobs == 1 .. (NumPools * MaxSlots)

\* the Job object at index i of pool p (jobLists[i / m_listLength][i % m_listLength])
SlotAt(p, i) == p * MaxSlots + i + 1
\* the pool whose segment holds Job object j, and its index there
PoolOfSlot(j) == (j - 1) \div MaxSlots
IndexOfSlot(j) == (j - 1) % MaxSlots

VARIABLES
  jobs,            \* the Job objects: [Jobs -> record of the Job members]
  pools,           \* JobMemory::m_jobPools: [PoolIds -> JobPool record]
  m_jobQueues,     \* [Threads -> Seq(Jobs)]
  m_jobPointers,   \* [Threads -> Jobs \cup {NULL}]
  m_terminate,
  m_numJobs,
  wk,              \* each worker's place in threadTask and its locals
  mainpc,          \* the main thread's place (in wait(), or outside)
  budget,          \* what the run may still spend (the bounds of the model)
  hist,            \* history of the run, read by the properties only
  start            \* the start-up of the threads: see NewStart

vars == <<jobs, pools, m_jobQueues, m_jobPointers, m_terminate, m_numJobs,
          wk, mainpc, budget, hist, start>>

\* Job::Job() leaves m_available (and m_pLastChild) without an initial value
NewJob ==
  [ m_available |-> "uninit", m_poolNumber |-> 0, m_function |-> "null",
    m_parentJob |-> NULL, m_numUnfinishedChildren |-> 0, m_onFinishedJob |-> NULL,
    m_pFirstChild |-> NULL, m_pLastChild |-> NULL, m_pNextSibling |-> NULL ]

NewJobPool ==
  [ jobIndex |-> 0, numJobsLeftToPlay |-> 0, isPlayedBack |-> FALSE,
    pOnPlaybackFinishedJob |-> NULL ]

NewHist ==
  [ owed |-> [j \in Jobs |-> 0],        \* operator() calls minus onFinished calls
    queuedN |-> [j \in Jobs |-> 0],     \* addJob(Job*) calls minus dequeues
    argParent |-> [j \in Jobs |-> NULL],\* pParent of the slot's last allocateJob
    balance |-> 0,                      \* enqueues minus onFinished calls
    reusedLive |-> {},                  \* slots allocateJob returned while live
    recorded |-> {},                    \* slots recorded when playback was called
    playPool |-> 0, playN |-> 0,        \* the pool played and its jobIndex then
    playedLive |-> FALSE,               \* a pool was played while a Job in it was live
    bodyRuns |-> [j \in Jobs |-> 0],    \* body calls of recorded slots in playback
    doneJob |-> NULL,                   \* the completion job of the playback
    doneEnq |-> 0, doneRuns |-> 0,      \* its enqueues and its body's runs
    waitRet |-> 0 ]                     \* m_numJobs as wait() read it when it returned

\* The JobSystem when its constructor begins to spawn threads.  Threads are
\* named by the order in which they are spawned.  made[i] tells whether
\* m_jobQueues[i] points to a JobQueue (resize() fills the vector with nullptr);
\* m_jobQueues[i] of the model is the content of that JobQueue.
NewStart ==
  [ m_threads |-> 0,                         \* m_threads.size()
    threadIndexCounter |-> 0,
    pc |-> [t \in Threads |-> "none"],        \* each thread's place before its loop
    threadIndex |-> [t \in Threads |-> -1],   \* its local threadIndex
    made |-> [i \in Threads |-> FALSE],
    m_threadIndexMap |-> [t \in Threads |-> -1],
    nullPush |-> FALSE,                      \* push() was called through a nullptr
    nullSteal |-> FALSE,                     \* steal() was called through a nullptr
    crashed |-> FALSE ]                      \* such a call has ended the process

\* every thread has been spawned and has reached its loop
Started ==
  [ m_threads |-> NumThreads,
    threadIndexCounter |-> NumThreads,
    pc |-> [t \in Threads |-> "loop"],
    threadIndex |-> [t \in Threads |-> t],
    made |-> [i \in Threads |-> TRUE],
    m_threadIndexMap |-> [t \in Threads |-> t],
    nullPush |-> FALSE,
    nullSteal |-> FALSE,
    crashed |-> FALSE ]

\* a Job that is queued (or taken from a queue and not yet called), running, or
\* waiting for its children: enqueued or called, and onFinished not yet invoked
LiveIn(h, j) == h.queuedN[j] > 0 \/ h.owed[j] > 0

\* ------------------------------------------------------------ the memory
\* The shared state an operation reads and writes, threaded through the
\* operators below.  k counts the JobQueue::push calls of the operation so far:
\* the k-th push goes to queue sel[k], the value std::rand() % m_threads.size()
\* took.  notified records a notify_all() on m_mainThreadCondVar.
Mem ==
  [ jobs |-> jobs, pools |-> pools, q |-> m_jobQueues, numJobs |-> m_numJobs,
    terminate |-> m_terminate, notified |-> FALSE, k |-> 0, hist |-> hist,
    budget |-> budget ]

MaxPush == 2 * NumPools * MaxSlots + 2
NoSel == [i \in 1 .. MaxPush |-> 0]

\* Job::setParentJob
SetParentJob(J, this, parentJob) ==
  LET J1 == [J EXCEPT ![this].m_parentJob = parentJob]
      J2 == [J1 EXCEPT ![parentJob].m_numUnfinishedChildren = @ + 1]
  IN  IF J2[parentJob].m_pFirstChild # NULL
      THEN LET J3 == [J2 EXCEPT ![J2[parentJob].m_pLastChild].m_pNextSibling = this]
           IN  [J3 EXCEPT ![parentJob].m_pLastChild = this]
      ELSE [J2 EXCEPT ![parentJob].m_pFirstChild = this,
                      ![parentJob].m_pLastChild = this]

\* JobMemory::allocateJob can return index idx of pool poolNumber: getNextJob
\* hands out jobIndex, jobIndex + 1, ... and the loop stops at the first Job
\* whose m_available reads true.  A Job never written reads either value.
CanAllocate(M, poolNumber, idx) ==
  /\ idx \in M.pools[poolNumber].jobIndex .. (MaxSlots - 1)
  /\ \A i \in M.pools[poolNumber].jobIndex .. (idx - 1) :
        M.jobs[SlotAt(poolNumber, i)].m_available \in {"false", "uninit"}
  /\ M.jobs[SlotAt(poolNumber, idx)].m_available \in {"true", "uninit"}

\* JobMemory::allocateJob (with getNextJob), returning index idx
AllocateJob(M, pParent, poolNumber, idx) ==
  LET pJob == SlotAt(poolNumber, idx)
      from == M.pools[poolNumber].jobIndex
      J0 == [j \in Jobs |->
               IF PoolOfSlot(j) = poolNumber /\ IndexOfSlot(j) \in from .. idx
                  /\ M.jobs[j].m_available = "uninit"
               THEN [M.jobs[j] EXCEPT !.m_available = IF j = pJob THEN "true" ELSE "false"]
               ELSE M.jobs[j]]
      J1 == [J0 EXCEPT ![pJob].m_poolNumber = poolNumber,
                       ![pJob].m_onFinishedJob = NULL,
                       ![pJob].m_pFirstChild = NULL,
                       ![pJob].m_pLastChild = NULL,
                       ![pJob].m_pNextSibling = NULL]
      J2 == IF pParent # NULL THEN SetParentJob(J1, pJob, pParent) ELSE J1
  IN  [M EXCEPT !.jobs = J2,
                !.pools[poolNumber].jobIndex = idx + 1,
                !.hist.argParent[pJob] = pParent,
                !.hist.reusedLive = IF LiveIn(M.hist, pJob) THEN @ \cup {pJob} ELSE @,
                !.budget.allocs = @ - 1,
                !.hist.recorded = @ \ {pJob}]

\* Job::setFunction
SetFunction(M, pJob, func) == [M EXCEPT !.jobs[pJob].m_function = func]

\* JobSystem::addJob(Job*): count the job, push it on a random queue
AddJobPtr(M, sel, pJob) ==
  [M EXCEPT !.numJobs = @ + 1,
            !.q[sel[M.k + 1]] = Append(@, pJob),
            !.k = @ + 1,
            !.hist.queuedN[pJob] = @ + 1,
            !.hist.balance = @ + 1,
            !.hist.doneEnq = IF pJob = M.hist.doneJob THEN @ + 1 ELSE @]

\* Job::onFinished, with the Job::childFinished calls it makes on the parents
RECURSIVE OnFinished(_, _, _)
OnFinished(M, sel, this) ==
  LET M0 == [M EXCEPT !.hist.owed[this] = @ - 1]
      parent == M0.jobs[this].m_parentJob
      numLeftP == M0.jobs[parent].m_numUnfinishedChildren
      M1 == IF parent # NULL
            THEN LET Md == [M0 EXCEPT !.jobs[parent].m_numUnfinishedChildren = @ - 1]
                 IN  IF numLeftP = 1 THEN OnFinished(Md, sel, parent) ELSE Md
            ELSE M0
      succ == M1.jobs[this].m_onFinishedJob
      M2 == IF succ # NULL THEN AddJobPtr(M1, sel, succ) ELSE M1
      numLeft == M2.numJobs
  IN  [M2 EXCEPT !.numJobs = @ - 1,
                 !.hist.balance = @ - 1,
                 !.notified = @ \/ (numLeft = 1),
                 !.jobs[this].m_available = "true"]

\* the playback loop of Job::operator(): enqueue the recorded children
RECURSIVE RunChildren(_, _, _, _)
RunChildren(M, sel, this, pChild) ==
  IF pChild = NULL THEN M
  ELSE LET M1 == [M EXCEPT !.jobs[this].m_numUnfinishedChildren = @ + 1]
           M2 == AddJobPtr(M1, sel, pChild)
       IN  RunChildren(M2, sel, this, M2.jobs[pChild].m_pNextSibling)

\* Job::operator() after the call of the function
JobReturn(M, sel, this) ==
  LET p == M.jobs[this].m_poolNumber
      M1 == IF M.pools[p].isPlayedBack
            THEN LET Mc == RunChildren(M, sel, this, M.jobs[this].m_pFirstChild)
                     numLeftToPlay == Mc.pools[p].numJobsLeftToPlay
                     Md == [Mc EXCEPT !.pools[p].numJobsLeftToPlay = @ - 1]
                 IN  IF numLeftToPlay = 1
                     THEN AddJobPtr([Md EXCEPT !.pools[p].isPlayedBack = FALSE],
                                    sel, Md.pools[p].pOnPlaybackFinishedJob)
                     ELSE Md
            ELSE M
      numLeft == M1.jobs[this].m_numUnfinishedChildren
      M2 == [M1 EXCEPT !.jobs[this].m_numUnfinishedChildren = @ - 1]
  IN  IF numLeft = 1 THEN OnFinished(M2, sel, this) ELSE M2

\* ------------------------------------------------------- the scheduler API
\* JobSystem::addJob(Function, poolNumber, id): a Job without parent
AddJob(M, sel, poolNumber, idx, func) ==
  LET M1 == AllocateJob(M, NULL, poolNumber, idx)
      M2 == SetFunction(M1, SlotAt(poolNumber, idx), func)
  IN  AddJobPtr(M2, sel, SlotAt(poolNumber, idx))

\* addChildJob without the test of isPlayedBack
AddChildJobRecordsAlways(M, sel, pCurrentJob, idx, func) ==
  LET poolNumber == M.jobs[pCurrentJob].m_poolNumber
      M1 == AllocateJob(M, pCurrentJob, poolNumber, idx)
      M2 == SetFunction(M1, SlotAt(poolNumber, idx), func)
  IN  AddJobPtr(M2, sel, SlotAt(poolNumber, idx))

\* JobSystem::addChildJob(Function): a child of the caller's current Job
\* pCurrentJob, in that Job's pool; nothing during a playback of the pool
AddChildJob(M, sel, pCurrentJob, idx, func) ==
  LET poolNumber == M.jobs[pCurrentJob].m_poolNumber
  IN  IF M.pools[poolNumber].isPlayedBack THEN M
      ELSE LET M1 == AllocateJob(M, pCurrentJob, poolNumber, idx)
               M2 == SetFunction(M1, SlotAt(poolNumber, idx), func)
           IN  AddJobPtr(M2, sel, SlotAt(poolNumber, idx))

\* JobSystem::onFinishedAddJob: a successor of the caller's current Job
OnFinishedAddJob(M, pCurrentJob, idx, func) ==
  LET poolNumber == M.jobs[pCurrentJob].m_poolNumber
      pParentJob == M.jobs[pCurrentJob].m_parentJob
  IN  IF M.pools[poolNumber].isPlayedBack THEN M
      ELSE LET M1 == AllocateJob(M, pParentJob, poolNumber, idx)
               M2 == SetFunction(M1, SlotAt(poolNumber, idx), func)
           IN  [M2 EXCEPT !.jobs[pCurrentJob].m_onFinishedJob = SlotAt(poolNumber, idx)]

\* the pool the two calls above allocate in, and whether they allocate
CallerPool(M, pCurrentJob) ==
  IF pCurrentJob # NULL THEN M.jobs[pCurrentJob].m_poolNumber ELSE 0

Records(M, pCurrentJob) == ~ M.pools[CallerPool(M, pCurrentJob)].isPlayedBack

\* JobSystem::playBackPool, called with current Job pCurrentJob (or NULL)
PlayBackPool(M, sel, pCurrentJob, playPoolNumber, idx) ==
  LET pParentJob == IF pCurrentJob # NULL THEN M.jobs[pCurrentJob].m_parentJob ELSE NULL
      poolNumber == CallerPool(M, pCurrentJob)
      ponFinishedJob == SlotAt(poolNumber, idx)
      rec == { SlotAt(playPoolNumber, i) : i \in 0 .. (M.pools[playPoolNumber].jobIndex - 1) }
      M1 == AllocateJob(M, pParentJob, poolNumber, idx)
      M2 == SetFunction(M1, ponFinishedJob, "on_done")
      M3 == [M2 EXCEPT !.hist.recorded = rec \ {ponFinishedJob},
                       !.hist.playedLive = @ \/ \E j \in rec : LiveIn(M.hist, j),
                       !.hist.playPool = playPoolNumber,
                       !.hist.playN = M.pools[playPoolNumber].jobIndex,
                       !.hist.bodyRuns = [j \in Jobs |-> 0],
                       !.hist.doneJob = ponFinishedJob,
                       !.hist.doneEnq = 0,
                       !.hist.doneRuns = 0,
                       !.budget.playbacks = @ - 1]
  IN  IF M3.pools[playPoolNumber].jobIndex = 0
      THEN AddJobPtr(M3, sel, ponFinishedJob)
      ELSE AddJobPtr([M3 EXCEPT
                        !.pools[playPoolNumber].isPlayedBack = TRUE,
                        !.pools[playPoolNumber].numJobsLeftToPlay =
                            M3.pools[playPoolNumber].jobIndex,
                        !.pools[playPoolNumber].pOnPlaybackFinishedJob = ponFinishedJob],
                     sel, SlotAt(playPoolNumber, 0))

\* a resetPool that also clears the links of the pool's slots
ResetPoolClearsLinks(M, poolNumber) ==
  [M EXCEPT !.pools[poolNumber].jobIndex = 0,
            !.budget.resets = @ - 1,
            !.jobs = [j \in Jobs |->
                        IF PoolOfSlot(j) = poolNumber
                        THEN [M.jobs[j] EXCEPT !.m_parentJob = NULL,
                                               !.m_onFinishedJob = NULL,
                                               !.m_pFirstChild = NULL,
                                               !.m_pLastChild = NULL,
                                               !.m_pNextSibling = NULL]
                        ELSE M.jobs[j]]]

\* JobMemory::resetPool of an existing pool
ResetPool(M, poolNumber) ==
  [M EXCEPT !.pools[poolNumber].jobIndex = 0, !.budget.resets = @ - 1]

\* JobSystem::terminate
Terminate(M) == [M EXCEPT !.terminate = TRUE]

\* ------------------------------------------------------------- the state
Idle == [pc |-> "loop", pJob |-> NULL, fn |-> "null", ops |-> 0, call |-> "none"]

Init ==
  /\ jobs = [j \in Jobs |-> NewJob]
  /\ pools = [p \in PoolIds |-> NewJobPool]
  /\ m_jobQueues = [t \in Threads |-> << >>]
  /\ m_jobPointers = [t \in Threads |-> NULL]
  /\ m_terminate = FALSE
  /\ m_numJobs = 0
  /\ wk = [t \in Threads |-> Idle]
  /\ mainpc = "run"
  /\ budget = [allocs |-> MaxAllocs, runs |-> MaxRuns, resets |-> MaxResets,
               playbacks |-> MaxPlaybacks]
  /\ hist = NewHist
  /\ start = Started

\* write the memory back; a notify_all() wakes the main thread if it sleeps in
\* m_mainThreadCondVar.wait (only worker threads notify)
Commit(M) ==
  /\ jobs' = M.jobs
  /\ pools' = M.pools
  /\ m_jobQueues' = M.q
  /\ m_numJobs' = M.numJobs
  /\ m_terminate' = M.terminate
  /\ hist' = M.hist
  /\ budget' = M.budget
  /\ mainpc' = IF M.notified /\ mainpc = "wait_sleep" THEN "wait_test" ELSE mainpc

\* an operation Op(M, sel), with every value its std::rand() calls can take
Apply(Op(_, _)) ==
  /\ \E sel \in [1 .. Op(Mem, NoSel).k -> Threads] : Commit(Op(Mem, sel))
  /\ UNCHANGED start

\* ----------------------------------------------- JobSystem::threadTask
\* m_jobPointers[threadIndex] = pJob; (*pJob)() up to the call of the function:
\* Job::operator() returns at once if no function is set, else sets
\* m_numUnfinishedChildren = 1 and calls the function
JobCall(w, this) ==
  LET func == jobs[this].m_function
  IN  /\ m_jobPointers' = [m_jobPointers EXCEPT ![w] = this]
      /\ hist' = [hist EXCEPT
                    !.queuedN[this] = @ - 1,
                    !.owed[this] = @ + 1,
                    !.bodyRuns[this] = IF this \in hist.recorded /\ func # "null"
                                       THEN @ + 1 ELSE @,
                    !.doneRuns = IF this = hist.doneJob /\ func = "on_done"
                                 THEN @ + 1 ELSE @]
      /\ IF func = "null"
         THEN /\ wk' = [wk EXCEPT ![w] = Idle]
              /\ UNCHANGED jobs
         ELSE /\ wk' = [wk EXCEPT ![w] = [pc |-> "body", pJob |-> this, fn |-> func, ops |-> 0, call |-> "none"]]
              /\ jobs' = [jobs EXCEPT ![this].m_numUnfinishedChildren = 1]
      /\ budget' = [budget EXCEPT !.runs = @ - 1]
      /\ UNCHANGED <<pools, m_terminate, m_numJobs, mainpc, start>>

\* a loop without the m_terminate tests: the queue is drained
PopIgnoresTerminate(w) ==
  /\ wk[w].pc = "loop"
  /\ budget.runs > 0
  /\ m_jobQueues[w] # << >>
  /\ m_jobQueues' = [m_jobQueues EXCEPT ![w] = Tail(@)]
  /\ JobCall(w, Head(m_jobQueues[w]))

\* one turn of the loop in which m_jobQueues[threadIndex]->pop() returns a Job
\* and no m_terminate test breaks: the Job is run
Pop(w) ==
  /\ wk[w].pc = "loop"
  /\ ~ m_terminate
  /\ budget.runs > 0
  /\ m_jobQueues[w] # << >>
  /\ m_jobQueues' = [m_jobQueues EXCEPT ![w] = Tail(@)]
  /\ JobCall(w, Head(m_jobQueues[w]))

\* one turn of the loop in which pop() returns nullptr and, with other threads
\* around, m_jobQueues[idx]->steal() returns a Job: the Job is run.  (A turn in
\* which every steal misses sleeps and changes nothing.)
Steal(w, idx) ==
  /\ wk[w].pc = "loop"
  /\ ~ m_terminate
  /\ budget.runs > 0
  /\ m_jobQueues[w] = << >>
  /\ NumThreads > 1
  /\ idx # w
  /\ m_jobQueues[idx] # << >>
  /\ m_jobQueues' = [m_jobQueues EXCEPT ![idx] = Tail(@)]
  /\ JobCall(w, Head(m_jobQueues[idx]))

\* if (m_terminate) break;
Exit(w) ==
  /\ wk[w].pc = "loop"
  /\ m_terminate
  /\ wk' = [wk EXCEPT ![w] = [Idle EXCEPT !.pc = "exited"]]
  /\ UNCHANGED <<jobs, pools, m_jobQueues, m_jobPointers, m_terminate, m_numJobs,
                 mainpc, budget, hist, start>>

\* the thread is inside a user function that may make one more API call;
\* wk[w].call names the last call the function has made
InBody(w) ==
  /\ wk[w].pc = "body"
  /\ wk[w].fn = "user"
  /\ wk[w].ops < MaxBodyOps

Called(w, api) == wk' = [wk EXCEPT ![w].ops = @ + 1, ![w].call = api]

\* the user function calls addJob(func, poolNumber)
BodyAddJob(w, poolNumber, idx) ==
  /\ InBody(w)
  /\ budget.allocs > 0
  /\ CanAllocate(Mem, poolNumber, idx)
  /\ Apply(LAMBDA M, sel : AddJob(M, sel, poolNumber, idx, "user"))
  /\ Called(w, "addJob")
  /\ UNCHANGED m_jobPointers

\* the user function calls addChildJob(func)
BodyAddChildJob(w, idx) ==
  /\ InBody(w)
  /\ Records(Mem, m_jobPointers[w]) => budget.allocs > 0
  /\ Records(Mem, m_jobPointers[w]) => CanAllocate(Mem, CallerPool(Mem, m_jobPointers[w]), idx)
  /\ ~ Records(Mem, m_jobPointers[w]) => idx = 0
  /\ Apply(LAMBDA M, sel : AddChildJob(M, sel, m_jobPointers[w], idx, "user"))
  /\ Called(w, "addChildJob")
  /\ UNCHANGED m_jobPointers

\* the user function calls onFinishedAddJob(func, id), or
\* onFinishedTerminatePool() (func = "terminate")
BodyOnFinishedAddJob(w, idx, func) ==
  /\ InBody(w)
  /\ Records(Mem, m_jobPointers[w]) => budget.allocs > 0
  /\ Records(Mem, m_jobPointers[w]) => CanAllocate(Mem, CallerPool(Mem, m_jobPointers[w]), idx)
  /\ ~ Records(Mem, m_jobPointers[w]) => idx = 0 /\ func = "user"
  /\ Apply(LAMBDA M, sel : OnFinishedAddJob(M, m_jobPointers[w], idx, func))
  /\ Called(w, "onFinishedAddJob")
  /\ UNCHANGED m_jobPointers

\* the user function calls playBackPool(playPoolNumber, onFinishedFunction)
BodyPlayBackPool(w, playPoolNumber, idx) ==
  /\ InBody(w)
  /\ budget.playbacks > 0
  /\ budget.allocs > 0
  /\ CanAllocate(Mem, CallerPool(Mem, m_jobPointers[w]), idx)
  /\ Apply(LAMBDA M, sel : PlayBackPool(M, sel, m_jobPointers[w], playPoolNumber, idx))
  /\ Called(w, "playBackPool")
  /\ UNCHANGED m_jobPointers

\* the function bound by onFinishedTerminatePool: JobSystem::terminate
BodyTerminate(w) ==
  /\ wk[w].pc = "body"
  /\ wk[w].fn = "terminate"
  /\ wk[w].ops = 0
  /\ Apply(LAMBDA M, sel : Terminate(M))
  /\ Called(w, "terminate")
  /\ UNCHANGED m_jobPointers

\* the function returns: the rest of Job::operator(), and the loop goes on
JobDone(w) ==
  /\ wk[w].pc = "body"
  /\ wk[w].fn = "terminate" => wk[w].ops = 1
  /\ Apply(LAMBDA M, sel : JobReturn(M, sel, wk[w].pJob))
  /\ wk' = [wk EXCEPT ![w] = Idle]
  /\ UNCHANGED m_jobPointers

\* ------------------------------------------------------ the main thread
\* getJobPointer() on the main thread: m_threadIndexMap[std::this_thread::get_id()]
\* finds no entry and inserts index 0, so the call returns m_jobPointers[0]
MainJobPointer == m_jobPointers[0]

MainAddJob(poolNumber, idx) ==
  /\ mainpc = "run"
  /\ budget.allocs > 0
  /\ CanAllocate(Mem, poolNumber, idx)
  /\ Apply(LAMBDA M, sel : AddJob(M, sel, poolNumber, idx, "user"))
  /\ UNCHANGED <<m_jobPointers, wk>>

MainResetPool(poolNumber) ==
  /\ mainpc = "run"
  /\ budget.resets > 0
  /\ Apply(LAMBDA M, sel : ResetPool(M, poolNumber))
  /\ UNCHANGED <<m_jobPointers, wk>>

MainPlayBackPool(playPoolNumber, idx) ==
  /\ mainpc = "run"
  /\ budget.playbacks > 0
  /\ budget.allocs > 0
  /\ CanAllocate(Mem, CallerPool(Mem, MainJobPointer), idx)
  /\ Apply(LAMBDA M, sel : PlayBackPool(M, sel, MainJobPointer, playPoolNumber, idx))
  /\ UNCHANGED <<m_jobPointers, wk>>

MainTerminate ==
  /\ mainpc = "run"
  /\ ~ m_terminate
  /\ Apply(LAMBDA M, sel : Terminate(M))
  /\ UNCHANGED <<m_jobPointers, wk>>

MainUnchanged == UNCHANGED <<jobs, pools, m_jobQueues, m_jobPointers, m_terminate,
                             m_numJobs, wk, start>>

\* JobSystem::wait is called
WaitCall ==
  /\ mainpc = "run"
  /\ mainpc' = "wait_test"
  /\ UNCHANGED <<hist, budget>>
  /\ MainUnchanged

\* while (getNumberJobs() > 0): wait() returns, or goes on to lock and wait
WaitTest ==
  /\ mainpc = "wait_test"
  /\ mainpc' = IF m_numJobs # 0 THEN "wait_lock" ELSE "run"
  /\ hist' = IF m_numJobs # 0 THEN hist ELSE [hist EXCEPT !.waitRet = m_numJobs]
  /\ UNCHANGED budget
  /\ MainUnchanged

\* std::unique_lock lock(m_mainThreadMutex); m_mainThreadCondVar.wait(lock)
\* starts to block
WaitBlock ==
  /\ mainpc = "wait_lock"
  /\ mainpc' = "wait_sleep"
  /\ UNCHANGED hist
  /\ UNCHANGED budget
  /\ MainUnchanged

\* std::condition_variable::wait may return without a notification
SpuriousWake ==
  /\ mainpc = "wait_sleep"
  /\ mainpc' = "wait_test"
  /\ UNCHANGED hist
  /\ UNCHANGED budget
  /\ MainUnchanged

Worker(w) ==
  \/ Pop(w)
  \/ \E idx \in Threads : Steal(w, idx)
  \/ Exit(w)
  \/ \E p \in PoolIds, idx \in 0 .. (MaxSlots - 1) : BodyAddJob(w, p, idx)
  \/ \E idx \in 0 .. (MaxSlots - 1) : BodyAddChildJob(w, idx)
  \/ \E idx \in 0 .. (MaxSlots - 1), func \in {"user", "terminate"} :
        BodyOnFinishedAddJob(w, idx, func)
  \/ \E p \in PoolIds, idx \in 0 .. (MaxSlots - 1) : BodyPlayBackPool(w, p, idx)
  \/ BodyTerminate(w)
  \/ JobDone(w)

MainSubmits == \E p \in PoolIds, idx \in 0 .. (MaxSlots - 1) : MainAddJob(p, idx)

MainResets == \E p \in PoolIds : MainResetPool(p)

MainPlays == \E p \in PoolIds, idx \in 0 .. (MaxSlots - 1) : MainPlayBackPool(p, idx)

MainWaits == WaitCall \/ WaitTest \/ WaitBlock \/ SpuriousWake

Workers == \E w \in Threads : Worker(w)

Next == Workers \/ MainSubmits \/ MainResets \/ MainPlays \/ MainTerminate \/ MainWaits

\* every run of the program, within the bounds
Spec == Init /\ [][Next]_vars

\* a worker whose Jobs' functions create Jobs or terminate the system
WorkerStops(w) ==
  \/ Pop(w)
  \/ \E idx \in Threads : Steal(w, idx)
  \/ Exit(w)
  \/ \E p \in PoolIds, idx \in 0 .. (MaxSlots - 1) : BodyAddJob(w, p, idx)
  \/ \E idx \in 0 .. (MaxSlots - 1) : BodyAddChildJob(w, idx)
  \/ \E idx \in 0 .. (MaxSlots - 1), func \in {"user", "terminate"} :
        BodyOnFinishedAddJob(w, idx, func)
  \/ BodyTerminate(w)
  \/ JobDone(w)

WorkersStop == \E w \in Threads : WorkerStops(w)

\* the runs in which the main thread submits jobs and calls terminate(), every
\* function called returns and every worker thread goes on with its loop
InitStop ==
  /\ jobs = [j \in Jobs |-> NewJob]
  /\ pools = [p \in PoolIds |-> NewJobPool]
  /\ m_jobQueues = [t \in Threads |-> << >>]
  /\ m_jobPointers = [t \in Threads |-> NULL]
  /\ m_terminate = FALSE
  /\ m_numJobs = 0
  /\ wk = [t \in Threads |-> Idle]
  /\ mainpc = "run"
  /\ budget = [allocs |-> MaxAllocsStop, runs |-> MaxRunsStop, resets |-> 0,
               playbacks |-> 0]
  /\ hist = NewHist
  /\ start = Started

NextStop == WorkersStop \/ MainSubmits \/ MainTerminate

SpecStop ==
  /\ InitStop
  /\ [][NextStop]_vars
  /\ \A w \in Threads :
        WF_vars(BodyTerminate(w)) /\ WF_vars(JobDone(w)) /\ WF_vars(Exit(w))

\* a worker whose Jobs' functions only create Jobs
WorkerRecords(w) ==
  \/ Pop(w)
  \/ \E idx \in Threads : Steal(w, idx)
  \/ \E p \in PoolIds, idx \in 0 .. (MaxSlots - 1) : BodyAddJob(w, p, idx)
  \/ \E idx \in 0 .. (MaxSlots - 1) : BodyAddChildJob(w, idx)
  \/ \E idx \in 0 .. (MaxSlots - 1) : BodyOnFinishedAddJob(w, idx, "user")
  \/ JobDone(w)

WorkersRecord == \E w \in Threads : WorkerRecords(w)

\* the runs in which the main thread only submits jobs and plays pools back and
\* the Jobs' functions only create Jobs, with more jobs and more executions
InitPlay ==
  /\ jobs = [j \in Jobs |-> NewJob]
  /\ pools = [p \in PoolIds |-> NewJobPool]
  /\ m_jobQueues = [t \in Threads |-> << >>]
  /\ m_jobPointers = [t \in Threads |-> NULL]
  /\ m_terminate = FALSE
  /\ m_numJobs = 0
  /\ wk = [t \in Threads |-> Idle]
  /\ mainpc = "run"
  /\ budget = [allocs |-> MaxAllocsPlay, runs |-> MaxRunsPlay, resets |-> 0,
               playbacks |-> MaxPlaybacks]
  /\ hist = NewHist
  /\ start = Started

NextPlay == WorkersRecord \/ MainSubmits \/ MainPlays

SpecPlay == InitPlay /\ [][NextPlay]_vars

\* the runs in which the main thread only submits jobs and resets pools and the
\* Jobs' functions only create Jobs, so that slots are allocated a second time
InitReuse ==
  /\ jobs = [j \in Jobs |-> NewJob]
  /\ pools = [p \in PoolIds |-> NewJobPool]
  /\ m_jobQueues = [t \in Threads |-> << >>]
  /\ m_jobPointers = [t \in Threads |-> NULL]
  /\ m_terminate = FALSE
  /\ m_numJobs = 0
  /\ wk = [t \in Threads |-> Idle]
  /\ mainpc = "run"
  /\ budget = [allocs |-> MaxAllocsReuse, runs |-> MaxRunsReuse, resets |-> MaxResets,
               playbacks |-> 0]
  /\ hist = NewHist
  /\ start = Started

NextReuse == WorkersRecord \/ MainSubmits \/ MainResets

SpecReuse == InitReuse /\ [][NextReuse]_vars

\* a worker whose Jobs' functions only create children and successors
WorkerChains(w) ==
  \/ Pop(w)
  \/ \E idx \in Threads : Steal(w, idx)
  \/ \E idx \in 0 .. (MaxSlots - 1) : BodyAddChildJob(w, idx)
  \/ \E idx \in 0 .. (MaxSlots - 1) : BodyOnFinishedAddJob(w, idx, "user")
  \/ JobDone(w)

WorkersChain == \E w \in Threads : WorkerChains(w)

\* the runs in which every Job is in pool 0: the main thread submits to pool 0
\* and resets it, the Jobs' functions create children and successors
InitChain ==
  /\ jobs = [j \in Jobs |-> NewJob]
  /\ pools = [p \in PoolIds |-> NewJobPool]
  /\ m_jobQueues = [t \in Threads |-> << >>]
  /\ m_jobPointers = [t \in Threads |-> NULL]
  /\ m_terminate = FALSE
  /\ m_numJobs = 0
  /\ wk = [t \in Threads |-> Idle]
  /\ mainpc = "run"
  /\ budget = [allocs |-> MaxAllocsChain, runs |-> MaxRunsChain, resets |-> MaxResets,
               playbacks |-> 0]
  /\ hist = NewHist
  /\ start = Started

NextChain ==
  \/ WorkersChain
  \/ \E idx \in 0 .. (MaxSlots - 1) : MainAddJob(0, idx)
  \/ MainResetPool(0)

SpecChain == InitChain /\ [][NextChain]_vars

\* ------------------------------------------- construction and start-up
StartUnchanged == UNCHANGED <<jobs, pools, m_jobQueues, m_jobPointers, m_terminate,
                              m_numJobs, wk, mainpc, budget, hist>>

\* the constructor's loop: m_threads.push_back(std::thread(&JobSystem::threadTask, this))
Spawn ==
  /\ ~ start.crashed
  /\ mainpc = "ctor"
  /\ start.m_threads < NumThreads
  /\ start' = [start EXCEPT !.m_threads = @ + 1, !.pc[start.m_threads] = "claim"]
  /\ StartUnchanged

\* the constructor returns after the loop (the pools exist), without waiting
\* for the threads it has spawned
CtorReturn ==
  /\ ~ start.crashed
  /\ mainpc = "ctor"
  /\ start.m_threads = NumThreads
  /\ mainpc' = "run"
  /\ UNCHANGED <<jobs, pools, m_jobQueues, m_jobPointers, m_terminate, m_numJobs,
                 wk, budget, hist, start>>

\* uint32_t threadIndex = threadIndexCounter.fetch_add(1)
ClaimIndex(t) ==
  /\ ~ start.crashed
  /\ start.pc[t] = "claim"
  /\ start' = [start EXCEPT !.threadIndex[t] = start.threadIndexCounter,
                            !.threadIndexCounter = @ + 1,
                            !.pc[t] = "queue"]
  /\ StartUnchanged

\* m_jobQueues[threadIndex] = new JobQueue()
MakeQueue(t) ==
  /\ ~ start.crashed
  /\ start.pc[t] = "queue"
  /\ start' = [start EXCEPT !.made[start.threadIndex[t]] = TRUE, !.pc[t] = "pointer"]
  /\ m_jobQueues' = [m_jobQueues EXCEPT ![start.threadIndex[t]] = << >>]
  /\ UNCHANGED <<jobs, pools, m_jobPointers, m_terminate, m_numJobs, wk, mainpc,
                 budget, hist>>

\* m_jobPointers[threadIndex] = nullptr
SetPointer(t) ==
  /\ ~ start.crashed
  /\ start.pc[t] = "pointer"
  /\ start' = [start EXCEPT !.pc[t] = "map"]
  /\ m_jobPointers' = [m_jobPointers EXCEPT ![start.threadIndex[t]] = NULL]
  /\ UNCHANGED <<jobs, pools, m_jobQueues, m_terminate, m_numJobs, wk, mainpc,
                 budget, hist>>

\* m_threadIndexMap[std::this_thread::get_id()] = threadIndex; the loop begins
Register(t) ==
  /\ ~ start.crashed
  /\ start.pc[t] = "map"
  /\ start' = [start EXCEPT !.m_threadIndexMap[t] = start.threadIndex[t],
                            !.pc[t] = "loop"]
  /\ StartUnchanged

ThreadStarts(t) == ClaimIndex(t) \/ MakeQueue(t) \/ SetPointer(t) \/ Register(t)

\* the thread with index w is in its loop (and the process has not crashed)
InLoop(w) ==
  /\ ~ start.crashed
  /\ \E t \in Threads : start.pc[t] = "loop" /\ start.threadIndex[t] = w

\* a call through the nullptr in m_jobQueues[i] is undefined: the process is
\* ended by the access (crashed), or goes on without the call having had an
\* effect on a queue
NullCall(M, field) ==
  \E crash \in BOOLEAN :
    /\ Commit(M)
    /\ start' = [start EXCEPT ![field] = TRUE, !.crashed = crash]

\* addJob(func, poolNumber) of the main thread after the constructor:
\* m_numJobs++; m_jobQueues[std::rand() % m_threads.size()]->push(pJob)
StartAddJob(poolNumber, idx) ==
  /\ ~ start.crashed
  /\ mainpc = "run"
  /\ budget.allocs > 0
  /\ CanAllocate(Mem, poolNumber, idx)
  /\ \E i \in 0 .. (start.m_threads - 1) :
        LET sel == [k \in 1 .. MaxPush |-> i]
            M == AddJob(Mem, sel, poolNumber, idx, "user")
        IN  IF start.made[i]
            THEN Commit(M) /\ UNCHANGED start
            ELSE NullCall([M EXCEPT !.q = m_jobQueues], "nullPush")
  /\ UNCHANGED <<m_jobPointers, wk>>

\* the loop of a thread that has started: pop() returns a Job
StartPop(w) == InLoop(w) /\ Pop(w)

\* pop() returns nullptr and m_jobQueues[idx]->steal() is called, idx being
\* std::rand() % m_threads.size() as the thread reads m_threads.size()
StartSteal(w, idx) ==
  /\ InLoop(w)
  /\ idx < start.m_threads
  /\ start.made[idx]
  /\ Steal(w, idx)

StartStealNull(w, idx) ==
  /\ InLoop(w)
  /\ wk[w].pc = "loop"
  /\ ~ m_terminate
  /\ m_jobQueues[w] = << >>
  /\ start.m_threads > 1
  /\ idx < start.m_threads
  /\ idx # w
  /\ ~ start.made[idx]
  /\ ~ start.nullSteal
  /\ NullCall(Mem, "nullSteal")
  /\ UNCHANGED <<m_jobPointers, wk>>

\* the function of the Job returns
StartJobDone(w) == InLoop(w) /\ JobDone(w)

StartedWorker(w) ==
  \/ StartPop(w)
  \/ \E idx \in Threads : StartSteal(w, idx)
  \/ \E idx \in Threads : StartStealNull(w, idx)
  \/ StartJobDone(w)

\* the runs from the constructor's loop on: the threads start, the main thread
\* submits Jobs once the constructor has returned, the Jobs' functions make no
\* calls; nothing happens in a process that has crashed
InitStart ==
  /\ jobs = [j \in Jobs |-> NewJob]
  /\ pools = [p \in PoolIds |-> NewJobPool]
  /\ m_jobQueues = [t \in Threads |-> << >>]
  /\ m_jobPointers = [t \in Threads |-> NULL]
  /\ m_terminate = FALSE
  /\ m_numJobs = 0
  /\ wk = [t \in Threads |-> Idle]
  /\ mainpc = "ctor"
  /\ budget = [allocs |-> MaxAllocsStart, runs |-> MaxRunsStart, resets |-> 0,
               playbacks |-> 0]
  /\ hist = NewHist
  /\ start = NewStart

StartSubmits == \E p \in PoolIds, idx \in 0 .. (MaxSlots - 1) : StartAddJob(p, idx)

NextStart ==
  \/ Spawn
  \/ CtorReturn
  \/ \E t \in Threads : ThreadStarts(t)
  \/ \E w \in Threads : StartedWorker(w)
  \/ StartSubmits

SpecStart == InitStart /\ [][NextStart]_vars

\* ------------------------------------------------------------ properties
Live(j) == LiveIn(hist, j)

\* nothing is queued and no worker holds a Job: no worker will act again
\* unless another thread enqueues something
Quiescent ==
  \A t \in Threads : m_jobQueues[t] = << >> /\ wk[t].pc = "loop"

\* The properties C1 to C5 and C7 to C9 are stated for the runs in which no
\* pool is played back while one of its recorded Jobs is still live
\* (hist.playedLive is FALSE).

\* C1: onFinished is invoked at most once for every execution of a Job: no
\* slot has seen more onFinished calls than Job::operator() calls
C1_OnFinishedAtMostOnce ==
  ~ hist.playedLive => \A j \in Jobs : hist.owed[j] >= 0

\* C2: every enqueued Job is run and its onFinished is invoked (terminate
\* not called): once the workers have nothing left to do, no Job that was
\* called is still without its onFinished call
C2_EveryJobCompletes ==
  (Quiescent /\ ~ m_terminate /\ ~ hist.playedLive)
     => \A j \in Jobs : hist.owed[j] <= 0

\* C3: the onFinished of a parent is invoked after the onFinished of every
\* descendant: while a Job allocated with parent P is live, P's own onFinished
\* is still to come
C3_ParentAfterDescendants ==
  ~ hist.playedLive =>
    \A c \in Jobs :
      (Live(c) /\ hist.argParent[c] # NULL) => hist.owed[hist.argParent[c]] > 0

\* C4: the successor s that Job J registered is enqueued only when J and the
\* Jobs allocated with parent J have completed, by no earlier path
C4_SuccessorAfterPredecessor ==
  [][ ~ hist'.playedLive =>
        \A s \in Jobs : hist'.queuedN[s] > hist.queuedN[s] =>
          \A J \in Jobs : jobs[J].m_onFinishedJob = s =>
            /\ ~ LiveIn(hist', J)
            /\ \A d \in Jobs : hist.argParent[d] = J => ~ LiveIn(hist', d) ]_vars

\* C5: the global job counter is the number of enqueues minus the number of
\* onFinished calls and never below zero, wait() returns on reading zero, and
\* at zero no Job is queued, running or waiting for children
C5_JobCounter ==
  ~ hist.playedLive =>
    /\ m_numJobs = hist.balance
    /\ m_numJobs >= 0
    /\ hist.waitRet = 0
    /\ m_numJobs = 0 => \A j \in Jobs : ~ Live(j)

\* C6: no wake-up of wait() is lost: the main thread never sleeps in
\* m_mainThreadCondVar.wait while the counter is zero and no worker has
\* anything left to do (so that nobody will notify)
C6_NoLostWakeup ==
  ~ (mainpc = "wait_sleep" /\ m_numJobs = 0 /\ Quiescent)

\* playBackPool has been called on a pool that held recorded Jobs, none of
\* them live at the call
Played == hist.doneJob # NULL /\ hist.playN > 0 /\ ~ hist.playedLive

\* C7: after playBackPool on a pool with jobIndex > 0 the completion job is
\* enqueued and its body runs exactly once: never twice, and once by the time
\* the workers have nothing left to do
C7_CompletionRunsOnce ==
  Played => /\ hist.doneRuns <= 1
            /\ (Quiescent /\ ~ m_terminate) => hist.doneRuns = 1

\* C8: the completion job is enqueued, and isPlayedBack cleared, only after
\* every Job recorded in the played pool has had its body run in the playback
C8_PlaybackEndsAfterAllRan ==
  (Played /\ (hist.doneEnq > 0 \/ ~ pools[hist.playPool].isPlayedBack))
     => \A j \in hist.recorded : hist.bodyRuns[j] >= 1

\* C9: in a playback the body of each recorded Job is invoked exactly once:
\* never twice, and once by the time the completion job has run and the
\* workers have nothing left to do
C9_EachRecordedJobRunsOnce ==
  Played =>
    /\ \A j \in hist.recorded : hist.bodyRuns[j] <= 1
    /\ (hist.doneRuns >= 1 /\ Quiescent /\ ~ m_terminate)
          => \A j \in hist.recorded : hist.bodyRuns[j] = 1

\* C10: no two live Jobs occupy the same slot: allocateJob returns a slot
\* only if its previous occupant has completed
C10_NoTwoLiveJobsInASlot == hist.reusedLive = {}

\* worker w is in the body of a Job and its function makes a call in this step
Calls(w, api) ==
  /\ wk[w].pc = "body"
  /\ wk'[w].ops = wk[w].ops + 1
  /\ wk'[w].call = api

\* the pool of the Job that worker w is running
RunningPool(w) == jobs[m_jobPointers[w]].m_poolNumber

\* C11: while the pool of the running Job is played back, addChildJob and
\* onFinishedAddJob called by that Job change nothing: no slot is allocated
\* (jobIndex unchanged), nothing is enqueued (m_numJobs and the queues
\* unchanged), and the Job's counter, child list and successor are unchanged
C11_PlaybackCallsAreNoOps ==
  [][ \A w \in Threads :
        ( /\ Calls(w, "addChildJob") \/ Calls(w, "onFinishedAddJob")
          /\ pools[RunningPool(w)].isPlayedBack )
        => /\ pools' = pools
           /\ m_numJobs' = m_numJobs
           /\ m_jobQueues' = m_jobQueues
           /\ jobs' = jobs ]_vars

\* a recorded Job run by the playback has made such a call, the pool still
\* being played back
C11_Witness ==
  \E w \in Threads :
    /\ wk[w].pc = "body"
    /\ wk[w].call \in {"addChildJob", "onFinishedAddJob"}
    /\ hist.bodyRuns[wk[w].pJob] >= 1
    /\ pools[jobs[wk[w].pJob].m_poolNumber].isPlayedBack

\* C12: addJob called from the body of a running Job J creates a Job that is
\* not a child of J: the call leaves J's m_numUnfinishedChildren and J's child
\* list as they are, and the Job it enqueues does not have J as its parent
\* (stated for the runs in which no slot is allocated while its Job is live)
C12_SubmitFromBodyIsTopLevel ==
  [][ \A w \in Threads :
        (Calls(w, "addJob") /\ hist'.reusedLive = {}) =>
          LET J == wk[w].pJob
          IN  /\ jobs'[J].m_numUnfinishedChildren = jobs[J].m_numUnfinishedChildren
              /\ jobs'[J].m_pFirstChild = jobs[J].m_pFirstChild
              /\ jobs'[J].m_pLastChild = jobs[J].m_pLastChild
              /\ \A n \in Jobs :
                    hist'.queuedN[n] > hist.queuedN[n] => jobs'[n].m_parentJob # J ]_vars

\* C13: resetPool on an existing pool changes only that pool's jobIndex, to
\* zero: every slot's links and m_available, the pool's playback state and
\* all other pools stay as they are (and nothing is enqueued or dequeued)
C13_ResetChangesOnlyJobIndex ==
  [][ budget'.resets < budget.resets =>
        /\ \E p \in PoolIds : pools' = [pools EXCEPT ![p].jobIndex = 0]
        /\ jobs' = jobs
        /\ m_jobQueues' = m_jobQueues
        /\ m_numJobs' = m_numJobs ]_vars

\* a pool has been reset whose slots hold the child list of a recording
C13_Witness ==
  /\ budget.resets < MaxResets
  /\ \E j \in Jobs :
        /\ pools[PoolOfSlot(j)].jobIndex = 0
        /\ jobs[j].m_pFirstChild # NULL
        /\ jobs[jobs[j].m_pFirstChild].m_parentJob = j

\* the last playBackPool found jobIndex = 0 and enqueued the completion job
\* directly
PlayedDirectly ==
  /\ hist.doneJob # NULL
  /\ hist.playN = 0
  /\ PoolOfSlot(hist.doneJob) # hist.playPool

\* this step is a playBackPool call
PlayBackCalled == budget'.playbacks < budget.playbacks

\* before this step Jobs were recorded in pool p in slots other than k (a slot
\* once allocated keeps its function), and all Jobs of the pool have completed
Populated(p, k) ==
  /\ \E j \in Jobs : PoolOfSlot(j) = p /\ j # k /\ jobs[j].m_function # "null"
  /\ \A j \in Jobs : PoolOfSlot(j) = p => ~ Live(j)

\* C14: playBackPool on a pool that was populated by an earlier execution
\* (and reset since), none of its Jobs being live, replays the recorded Jobs:
\* there are recorded slots for it to run, isPlayedBack is set, slot 0 is
\* enqueued and the completion job is not enqueued directly
C14_PopulatedPoolIsReplayed ==
  [][ ( /\ PlayBackCalled
        /\ Populated(hist'.playPool, hist'.doneJob) )
      => /\ hist'.recorded # {}
         /\ ~ PlayedDirectly'
         /\ pools'[hist'.playPool].isPlayedBack
         /\ hist'.queuedN[SlotAt(hist'.playPool, 0)] > hist.queuedN[SlotAt(hist'.playPool, 0)]
    ]_vars

\* C15: a playBackPool call of the main thread allocates the completion job
\* in pool 0 with no parent, whatever the workers have run before; a call from
\* the body of Job J allocates it in J's pool with J's parent
C15_CompletionJobContext ==
  [][ PlayBackCalled =>
        LET k == hist'.doneJob
        IN  /\ wk' = wk => /\ PoolOfSlot(k) = 0
                           /\ hist'.argParent[k] = NULL
            /\ \A w \in Threads :
                  Calls(w, "playBackPool") =>
                    /\ PoolOfSlot(k) = jobs[wk[w].pJob].m_poolNumber
                    /\ hist'.argParent[k] = jobs[wk[w].pJob].m_parentJob ]_vars

\* every worker has left the loop of threadTask (its thread can be joined)
AllExited == \A w \in Threads : wk[w].pc = "exited"

C17_EmptyJobCompletes ==
  \A j \in Jobs : jobs[j].m_function = "null" => hist.owed[j] <= 0

\* C18: a Job is appended to the child list of P (P's m_pLastChild is set to
\* a new Job) only by the worker that is running P's function, in a call that
\* function makes
C18_OnlyParentAppendsChildren ==
  [][ \A P \in Jobs :
        ( /\ jobs'[P].m_pLastChild # jobs[P].m_pLastChild
          /\ jobs'[P].m_pLastChild # NULL )
        => \E w \in Threads :
              /\ wk[w].pc = "body"
              /\ wk[w].pJob = P
              /\ wk'[w].ops = wk[w].ops + 1 ]_vars

\* Job c has been allocated and its onFinished is still to come: it is live,
\* or it is the successor that a live Job has registered, or the completion
\* job of a playback that has not ended
Outstanding(c) ==
  \/ Live(c)
  \/ \E J \in Jobs : Live(J) /\ jobs[J].m_onFinishedJob = c
  \/ \E p \in PoolIds : pools[p].isPlayedBack /\ pools[p].pOnPlaybackFinishedJob = c

\* 1 while a worker is in the function of Job j (the decrement at the end of
\* Job::operator() is still to come), else 0
OwnCount(j) ==
  IF \E w \in Threads : wk[w].pc = "body" /\ wk[w].pJob = j THEN 1 ELSE 0

\* C19: for every Job that has been called and whose onFinished is still to
\* come, m_numUnfinishedChildren is 1 for the Job itself while its function
\* runs plus the number of outstanding Jobs allocated with it as parent; and
\* no counter is decremented at zero (no counter has wrapped around).  Stated
\* for the runs in which no slot is allocated while its Job is live and no
\* pool is played back while one of its Jobs is live.
C19_UnfinishedChildrenCount ==
  (hist.reusedLive = {} /\ ~ hist.playedLive) =>
    /\ \A j \in Jobs : jobs[j].m_numUnfinishedChildren >= 0
    /\ \A j \in Jobs :
          hist.owed[j] > 0 =>
            jobs[j].m_numUnfinishedChildren =
              OwnCount(j)
                + Cardinality({c \in Jobs : hist.argParent[c] = j /\ Outstanding(c)})

\* C20: a Job allocated without parent (by addJob) has no parent while it is
\* queued or runs, also in a slot that held a child Job before a resetPool:
\* its onFinished will call childFinished on no other Job.  (Stated for the
\* runs in which no slot is allocated while its Job is live.)
C20_SubmittedJobHasNoParent ==
  hist.reusedLive = {} =>
    \A j \in Jobs :
      (Live(j) /\ hist.argParent[j] = NULL) => jobs[j].m_parentJob = NULL

\* S is the successor that Job C registered, allocated with C's parent P, and
\* S's onFinished is still to come
SuccessorPending(C, S, P) ==
  /\ S # NULL /\ P # NULL
  /\ jobs[C].m_onFinishedJob = S
  /\ jobs[C].m_parentJob = P
  /\ jobs[S].m_parentJob = P
  /\ hist.argParent[S] = P
  /\ Outstanding(S)

\* in this step the onFinished of Job P is invoked, or P's successor is enqueued
Finishes(P) ==
  \/ hist'.owed[P] < hist.owed[P]
  \/ /\ jobs[P].m_onFinishedJob # NULL
     /\ hist'.queuedN[jobs[P].m_onFinishedJob] > hist.queuedN[jobs[P].m_onFinishedJob]

\* C21: onFinishedAddJob called by Job C with parent P allocates the successor
\* with parent P and increments P's m_numUnfinishedChildren while C is live;
\* and in an execution without playback P's onFinished is not invoked, and
\* P's successor not enqueued, while the successor of C (or a successor
\* further along the chain, which has parent P too) is still to complete.
\* (Stated for the runs in which no slot is allocated while its Job is live.)
C21_ParentAfterSuccessorChain ==
  [][ hist'.reusedLive = {} =>
        /\ \A w \in Threads :
              LET C == wk[w].pJob
                  P == jobs[C].m_parentJob
              IN  (Calls(w, "onFinishedAddJob") /\ P # NULL) =>
                    /\ jobs'[jobs'[C].m_onFinishedJob].m_parentJob = P
                    /\ jobs'[P].m_numUnfinishedChildren = jobs[P].m_numUnfinishedChildren + 1
                    /\ LiveIn(hist', C)
        /\ \A P \in Jobs :
              Finishes(P) => \A C, S \in Jobs : ~ SuccessorPending(C, S, P)' ]_vars

\* the indices that threads have claimed
Claimed == { start.threadIndex[t] : t \in {u \in Threads : start.threadIndex[u] # -1} }

\* C22: every push goes to a JobQueue that exists: a submit of the main thread
\* after the constructor has returned never calls push() through a nullptr of
\* m_jobQueues, whatever index it draws and however far the threads have got;
\* and the indices claimed by the threads are distinct and dense
C22_EnqueueFindsQueue ==
  /\ ~ start.nullPush
  /\ \A t, u \in Threads :
        (t # u /\ start.threadIndex[t] # -1) => start.threadIndex[t] # start.threadIndex[u]
  /\ Claimed = 0 .. (start.threadIndexCounter - 1)
====
